---- MODULE Spec2Model ----
(***************************************************************************)
(* Model of the kid-english teaching core: TeachingStateMachine            *)
(* (app/agents/state_machine.py) and TeachingAgent                         *)
(* (app/agents/teaching_agent.py), one session.                            *)
(*                                                                         *)
(* Every method of the two classes is an operator that maps the object's   *)
(* fields before the call to the fields after it, so that a handler is the *)
(* composition of the calls it makes.  The transcript is append-only; the  *)
(* model keeps the rows the most recent call wrote (appended).             *)
(***************************************************************************)
EXTENDS Integers, Sequences, FiniteSets, TLC

VARIABLES
    state,            \* TeachingStateMachine.state (TeachingState)
    learning_issues,  \* TeachingAgent.learning_issues
    appended,         \* rows the last call added through ContextService.add_to_context
    message,          \* what the last call returned (or that it raised)
    started,          \* start_teaching has been called
    step_trace,       \* every value current_step has held, in order
    last_event,       \* the event the last process_user_input call handled
    streak,           \* run of same-kind, successfully answered events in the current phase
    n_events,         \* events a clean session was delivered before it completed
    clean,            \* the session is one where the generator never fails and every
                      \* event is a timeout or carries text
    timeouts_in_phase,\* timeout events delivered since current_step last changed
    call,             \* the last call made on a TeachingStateMachine directly
    n_calls,          \* number of such calls
    rows,             \* conversation_contexts rows of the session, in created_at order
    entries,          \* what the last ContextService.get_session_context returned
    active_agents,    \* TeachingService.active_agents: session id -> agent
    table,            \* conversation_contexts rows of all sessions of a service
    svc_call,         \* the last call made on a TeachingService
    n_svc,            \* number of such calls
    llm,              \* LLMClient: the generation call in progress and the API calls made
    records,          \* learning records the services handed to RecordService
    websocket_handler \* the WebSocketRouteHandler instance of routes/websocket.py

vars == <<state, learning_issues, appended, message, started, step_trace,
          last_event, streak, n_events, clean, timeouts_in_phase,
          call, n_calls, rows, entries,
          active_agents, table, svc_call, n_svc, llm, records, websocket_handler>>

(* The variables of the sequencer used on its own, and of the context log *)
sm_vars == <<call, n_calls>>
ctx_vars == <<rows, entries>>
svc_vars == <<active_agents, table, svc_call, n_svc, records>>
llm_vars == <<llm>>
ws_vars == <<websocket_handler>>
agent_vars == <<learning_issues, appended, message, started, step_trace,
                last_event, streak, n_events, clean, timeouts_in_phase>>

----------------------------------------------------------------------------
(* Bounds of the model *)

MaxEvents == 22
MaxCalls == 4
MaxRows == 4
MaxSvcCalls == 4
MaxGenerations == 8
MaxLessonCalls == 16
MaxMessages == 2
MaxConnections == 3
SessionIds == {1, 2}
Sentences == {1, 2}

(* user_input values: None, the empty string, the target text, another text *)
NoneInput == "None"
Texts == {"hi", "weather"}
UserInputs == {NoneInput, ""} \cup Texts

(* The events a caller delivers: text or none without a timeout (websocket *)
(* user_message), a timeout without text (TeachingService.process_timeout) *)
(* or with text beside it (as the tests do)                                *)
Events == {e \in [user_input : UserInputs, is_timeout : BOOLEAN] :
              e.is_timeout => e.user_input \in {NoneInput, "hi"}}

(* Python truthiness of user_input *)
Truthy(user_input) == user_input \notin {NoneInput, ""}

----------------------------------------------------------------------------
(* TeachingStep *)

INTRODUCTION == "introduction"
READING_SENTENCE1 == "reading_1"
READING_SENTENCE2 == "reading_2"
EXAMINATION_SENTENCE1 == "exam_1"
EXAMINATION_SENTENCE2 == "exam_2"
SUMMARY == "summary"
COMPLETED == "completed"

TeachingStep == <<INTRODUCTION, READING_SENTENCE1, READING_SENTENCE2,
                  EXAMINATION_SENTENCE1, EXAMINATION_SENTENCE2, SUMMARY, COMPLETED>>

StepIndex(s) == CHOOSE i \in 1..Len(TeachingStep) : TeachingStep[i] = s

(* TeachingState(current_step=INTRODUCTION) *)
TeachingState ==
    [current_step |-> INTRODUCTION,
     sentence1_reading_count |-> 0, sentence1_timeout_count |-> 0,
     sentence2_reading_count |-> 0, sentence2_timeout_count |-> 0,
     sentence1_exam_attempts |-> 0, sentence1_timeout_attempts |-> 0,
     sentence2_exam_attempts |-> 0, sentence2_timeout_attempts |-> 0,
     sentence1_mastered |-> FALSE, sentence2_mastered |-> FALSE,
     learning_issues |-> <<>>]

max_reading_attempts == 3
max_exam_attempts == 2

----------------------------------------------------------------------------
(* TeachingStateMachine: each operator returns the state after the call,  *)
(* and the returned value where the method returns one.                   *)

sm_record_learning_issue(st, sentence_number, issue_type) ==
    [st EXCEPT !.learning_issues =
        Append(@, [sentence_number |-> sentence_number,
                   issue_type |-> issue_type,
                   step |-> st.current_step])]

(* Variant: a failed attempt is counted as a reading attempt, not a timeout *)
record_reading_attempt_miscounted(st, sentence_number, success) ==
    IF sentence_number = 1
    THEN LET s1 == [st EXCEPT !.sentence1_reading_count = @ + 1]
             count == s1.sentence1_reading_count
             s3 == IF success /\ count >= 2
                   THEN [s1 EXCEPT !.sentence1_mastered = TRUE] ELSE s1
         IN [state |-> s3, ret |-> count]
    ELSE LET count == st.sentence2_reading_count
             s1 == [st EXCEPT !.sentence2_reading_count = @ + 1]
             s3 == IF success /\ count >= 2
                   THEN [s1 EXCEPT !.sentence2_mastered = TRUE] ELSE s1
         IN [state |-> s3, ret |-> count]

(* Variant: a successful reading starts the timeout count again *)
record_reading_attempt_resetting(st, sentence_number, success) ==
    IF sentence_number = 1
    THEN LET s1 == IF success
                   THEN [st EXCEPT !.sentence1_reading_count = @ + 1,
                                   !.sentence1_timeout_count = 0]
                   ELSE st
             count == s1.sentence1_reading_count
             s2 == IF ~success
                   THEN [s1 EXCEPT !.sentence1_timeout_count = @ + 1] ELSE s1
             s3 == IF success /\ count >= 2
                   THEN [s2 EXCEPT !.sentence1_mastered = TRUE] ELSE s2
         IN [state |-> s3, ret |-> count]
    ELSE LET count == st.sentence2_reading_count
             s1 == IF success
                   THEN [st EXCEPT !.sentence2_reading_count = @ + 1,
                                   !.sentence2_timeout_count = 0]
                   ELSE st
             s2 == IF ~success
                   THEN [s1 EXCEPT !.sentence2_timeout_count = @ + 1] ELSE s1
             s3 == IF success /\ count >= 2
                   THEN [s2 EXCEPT !.sentence2_mastered = TRUE] ELSE s2
         IN [state |-> s3, ret |-> count]

record_reading_attempt(st, sentence_number, success) ==
    IF sentence_number = 1
    THEN LET s1 == IF success
                   THEN [st EXCEPT !.sentence1_reading_count = @ + 1] ELSE st
             count == s1.sentence1_reading_count
             s2 == IF ~success
                   THEN [s1 EXCEPT !.sentence1_timeout_count = @ + 1] ELSE s1
             s3 == IF success /\ count >= 2
                   THEN [s2 EXCEPT !.sentence1_mastered = TRUE] ELSE s2
         IN [state |-> s3, ret |-> count]
    ELSE LET count == st.sentence2_reading_count
             s1 == IF success
                   THEN [st EXCEPT !.sentence2_reading_count = @ + 1] ELSE st
             s2 == IF ~success
                   THEN [s1 EXCEPT !.sentence2_timeout_count = @ + 1] ELSE s1
             s3 == IF success /\ count >= 2
                   THEN [s2 EXCEPT !.sentence2_mastered = TRUE] ELSE s2
         IN [state |-> s3, ret |-> count]

record_timeout_attempt(st, sentence_number, success) ==
    IF sentence_number = 1
    THEN LET s1 == [st EXCEPT !.sentence1_timeout_count = @ + 1]
         IN [state |-> s1, ret |-> s1.sentence1_timeout_count]
    ELSE LET s1 == [st EXCEPT !.sentence2_timeout_count = @ + 1]
         IN [state |-> s1, ret |-> s1.sentence2_timeout_count]

(* Variant: every exam attempt, failed or not, raises exam_attempts *)
record_exam_attempt_combined(st, sentence_number, success) ==
    IF sentence_number = 1
    THEN LET s1 == [st EXCEPT !.sentence1_exam_attempts = @ + 1]
             s3 == IF success
                   THEN [s1 EXCEPT !.sentence1_mastered = TRUE]
                   ELSE IF s1.sentence1_exam_attempts >= max_exam_attempts
                        THEN sm_record_learning_issue(s1, sentence_number, "exam_failed")
                        ELSE s1
         IN [state |-> s3, ret |-> s3.sentence1_exam_attempts]
    ELSE LET s1 == [st EXCEPT !.sentence2_exam_attempts = @ + 1]
             s3 == IF success
                   THEN [s1 EXCEPT !.sentence2_mastered = TRUE]
                   ELSE IF s1.sentence2_exam_attempts >= max_exam_attempts
                        THEN sm_record_learning_issue(s1, sentence_number, "exam_failed")
                        ELSE s1
         IN [state |-> s3, ret |-> s3.sentence2_exam_attempts]

(* Variant: a sentence is mastered only by the success that reaches max_exam_attempts *)
record_exam_attempt_late_mastery(st, sentence_number, success) ==
    IF sentence_number = 1
    THEN LET s1 == IF success
                   THEN [st EXCEPT !.sentence1_exam_attempts = @ + 1] ELSE st
             s2 == IF ~success
                   THEN [s1 EXCEPT !.sentence1_timeout_attempts = @ + 1] ELSE s1
             s3 == IF success
                   THEN IF s2.sentence1_exam_attempts >= max_exam_attempts
                        THEN [s2 EXCEPT !.sentence1_mastered = TRUE] ELSE s2
                   ELSE IF s2.sentence1_exam_attempts >= max_exam_attempts
                        THEN sm_record_learning_issue(s2, sentence_number, "exam_failed")
                        ELSE s2
         IN [state |-> s3, ret |-> s3.sentence1_exam_attempts]
    ELSE LET s1 == IF success
                   THEN [st EXCEPT !.sentence2_exam_attempts = @ + 1] ELSE st
             s2 == IF ~success
                   THEN [s1 EXCEPT !.sentence2_timeout_attempts = @ + 1] ELSE s1
             s3 == IF success
                   THEN IF s2.sentence2_exam_attempts >= max_exam_attempts
                        THEN [s2 EXCEPT !.sentence2_mastered = TRUE] ELSE s2
                   ELSE IF s2.sentence2_exam_attempts >= max_exam_attempts
                        THEN sm_record_learning_issue(s2, sentence_number, "exam_failed")
                        ELSE s2
         IN [state |-> s3, ret |-> s3.sentence2_exam_attempts]

(* Variant: the mastered flag is the outcome of the latest exam attempt *)
record_exam_attempt_unmastering(st, sentence_number, success) ==
    IF sentence_number = 1
    THEN LET s1 == IF success
                   THEN [st EXCEPT !.sentence1_exam_attempts = @ + 1] ELSE st
             s2 == IF ~success
                   THEN [s1 EXCEPT !.sentence1_timeout_attempts = @ + 1] ELSE s1
             s3 == [s2 EXCEPT !.sentence1_mastered = success]
             s4 == IF ~success /\ s3.sentence1_exam_attempts >= max_exam_attempts
                   THEN sm_record_learning_issue(s3, sentence_number, "exam_failed")
                   ELSE s3
         IN [state |-> s4, ret |-> s4.sentence1_exam_attempts]
    ELSE LET s1 == IF success
                   THEN [st EXCEPT !.sentence2_exam_attempts = @ + 1] ELSE st
             s2 == IF ~success
                   THEN [s1 EXCEPT !.sentence2_timeout_attempts = @ + 1] ELSE s1
             s3 == [s2 EXCEPT !.sentence2_mastered = success]
             s4 == IF ~success /\ s3.sentence2_exam_attempts >= max_exam_attempts
                   THEN sm_record_learning_issue(s3, sentence_number, "exam_failed")
                   ELSE s3
         IN [state |-> s4, ret |-> s4.sentence2_exam_attempts]

record_exam_attempt(st, sentence_number, success) ==
    IF sentence_number = 1
    THEN LET s1 == IF success
                   THEN [st EXCEPT !.sentence1_exam_attempts = @ + 1] ELSE st
             s2 == IF ~success
                   THEN [s1 EXCEPT !.sentence1_timeout_attempts = @ + 1] ELSE s1
             s3 == IF success
                   THEN [s2 EXCEPT !.sentence1_mastered = TRUE]
                   ELSE IF s2.sentence1_exam_attempts >= max_exam_attempts
                        THEN sm_record_learning_issue(s2, sentence_number, "exam_failed")
                        ELSE s2
         IN [state |-> s3, ret |-> s3.sentence1_exam_attempts]
    ELSE LET s1 == IF success
                   THEN [st EXCEPT !.sentence2_exam_attempts = @ + 1] ELSE st
             s2 == IF ~success
                   THEN [s1 EXCEPT !.sentence2_timeout_attempts = @ + 1] ELSE s1
             s3 == IF success
                   THEN [s2 EXCEPT !.sentence2_mastered = TRUE]
                   ELSE IF s2.sentence2_exam_attempts >= max_exam_attempts
                        THEN sm_record_learning_issue(s2, sentence_number, "exam_failed")
                        ELSE s2
         IN [state |-> s3, ret |-> s3.sentence2_exam_attempts]

should_proceed_to_next_reading(st, sentence_number) ==
    IF sentence_number = 1
    THEN st.sentence1_mastered \/ st.sentence1_reading_count >= max_reading_attempts
    ELSE st.sentence2_mastered \/ st.sentence2_reading_count >= max_reading_attempts

should_proceed_to_next_exam(st, sentence_number) ==
    IF sentence_number = 1
    THEN st.sentence1_mastered \/ st.sentence1_exam_attempts >= max_exam_attempts
    ELSE st.sentence2_mastered \/ st.sentence2_exam_attempts >= max_exam_attempts

(* Variant: the step after READING_SENTENCE1 is the first examination *)
move_to_next_step_skipping(st) ==
    LET current == st.current_step IN
    IF current = INTRODUCTION THEN [st EXCEPT !.current_step = READING_SENTENCE1]
    ELSE IF current = READING_SENTENCE1 THEN [st EXCEPT !.current_step = EXAMINATION_SENTENCE1]
    ELSE IF current = READING_SENTENCE2 THEN [st EXCEPT !.current_step = EXAMINATION_SENTENCE1]
    ELSE IF current = EXAMINATION_SENTENCE1 THEN [st EXCEPT !.current_step = EXAMINATION_SENTENCE2]
    ELSE IF current = EXAMINATION_SENTENCE2 THEN [st EXCEPT !.current_step = SUMMARY]
    ELSE IF current = SUMMARY THEN [st EXCEPT !.current_step = COMPLETED]
    ELSE st

(* Variant: the reading and exam transitions wait for should_proceed_* *)
move_to_next_step_gated(st) ==
    LET current == st.current_step IN
    IF current = INTRODUCTION THEN [st EXCEPT !.current_step = READING_SENTENCE1]
    ELSE IF current = READING_SENTENCE1
    THEN IF should_proceed_to_next_reading(st, 1)
         THEN [st EXCEPT !.current_step = READING_SENTENCE2] ELSE st
    ELSE IF current = READING_SENTENCE2
    THEN IF should_proceed_to_next_reading(st, 2)
         THEN [st EXCEPT !.current_step = EXAMINATION_SENTENCE1] ELSE st
    ELSE IF current = EXAMINATION_SENTENCE1
    THEN IF should_proceed_to_next_exam(st, 1)
         THEN [st EXCEPT !.current_step = EXAMINATION_SENTENCE2] ELSE st
    ELSE IF current = EXAMINATION_SENTENCE2
    THEN IF should_proceed_to_next_exam(st, 2)
         THEN [st EXCEPT !.current_step = SUMMARY] ELSE st
    ELSE IF current = SUMMARY THEN [st EXCEPT !.current_step = COMPLETED]
    ELSE st

move_to_next_step(st) ==
    LET current == st.current_step IN
    IF current = INTRODUCTION THEN [st EXCEPT !.current_step = READING_SENTENCE1]
    ELSE IF current = READING_SENTENCE1 THEN [st EXCEPT !.current_step = READING_SENTENCE2]
    ELSE IF current = READING_SENTENCE2 THEN [st EXCEPT !.current_step = EXAMINATION_SENTENCE1]
    ELSE IF current = EXAMINATION_SENTENCE1 THEN [st EXCEPT !.current_step = EXAMINATION_SENTENCE2]
    ELSE IF current = EXAMINATION_SENTENCE2 THEN [st EXCEPT !.current_step = SUMMARY]
    ELSE IF current = SUMMARY THEN [st EXCEPT !.current_step = COMPLETED]
    ELSE st

is_teaching_complete(st) == st.current_step = COMPLETED

(* Variant: reset goes back to the first step and keeps what was counted *)
reset_keeping_counters(st) == [st EXCEPT !.current_step = INTRODUCTION]

reset(st) == TeachingState

----------------------------------------------------------------------------
(* TeachingAgent.  An agent value a carries the fields a call can change: *)
(*   a.state            self.state_machine.state                          *)
(*   a.learning_issues  self.learning_issues                              *)
(*   a.context          the rows this call has written so far             *)
(*   a.trace            the values current_step has taken                 *)
(* A handler returns [a |-> agent after the call, message |-> result].    *)

(* ContextService.add_to_context and its three wrappers *)
add_to_context(a, role, content, step) ==
    [a EXCEPT !.context = Append(@, [role |-> role, content |-> content, step |-> step])]

add_system_prompt(a, content, step) == add_to_context(a, "system", content, step)
add_user_message(a, content, step) == add_to_context(a, "user", [text |-> content], step)
add_assistant_message(a, content, step) == add_to_context(a, "assistant", content, step)

(* self.state_machine.move_to_next_step(), with the step history kept *)
agent_move_to_next_step(a) ==
    LET st == move_to_next_step(a.state) IN
    [a EXCEPT !.state = st,
              !.trace = IF st.current_step = a.state.current_step
                        THEN @ ELSE Append(@, st.current_step)]

(* The text the generator returns for a prompt: opaque, tied to its prompt *)
Reply(prompt) == [reply_to |-> prompt]

(* A call that the generator's exception left: nothing is returned *)
Raised(a) == [a |-> a, message |-> [type |-> "exception"]]

NoSeconds == 0 - 1

(* Variant: the message never names a timeout *)
build_websocket_message_untimed(content, step, waiting, timeout_seconds) ==
    [type |-> "teaching_response", content |-> content, step |-> step,
     waiting_for_user |-> waiting]

build_websocket_message(content, step, waiting, timeout_seconds) ==
    IF waiting /\ timeout_seconds # NoSeconds
    THEN [type |-> "teaching_response", content |-> content, step |-> step,
          waiting_for_user |-> waiting, timeout_seconds |-> timeout_seconds]
    ELSE [type |-> "teaching_response", content |-> content, step |-> step,
          waiting_for_user |-> waiting]

build_error_message(error_msg) == [type |-> "error", content |-> error_msg]

agent_record_learning_issue(a, sentence_num, issue_type) ==
    [a EXCEPT !.learning_issues =
        Append(@, [sentence_order |-> sentence_num, record_type |-> issue_type])]

(* The prompt builders write the prompt to the transcript and return it *)
Prompt(template, sentence_num, user_input, is_timeout, count) ==
    [template |-> template, sentence_num |-> sentence_num,
     state_desc |-> IF is_timeout THEN "timeout"
                    ELSE IF Truthy(user_input) THEN "answered" ELSE "start",
     count |-> IF is_timeout THEN count ELSE 0,
     user_input |-> IF ~is_timeout /\ Truthy(user_input) THEN user_input ELSE NoneInput]

READING_TAG == <<"reading_1", "reading_2">>
EXAM_TAG == <<"exam_1", "exam_2">>

(* Variant: the reading prompt is built but not written to the transcript *)
build_reading_prompt_unlogged(a, sentence_num, user_input, is_timeout, timeout_count) ==
    LET prompt == Prompt("reading", sentence_num, user_input, is_timeout, timeout_count)
    IN [a |-> a, prompt |-> prompt]

build_reading_prompt(a, sentence_num, user_input, is_timeout, timeout_count) ==
    LET prompt == Prompt("reading", sentence_num, user_input, is_timeout, timeout_count)
    IN [a |-> add_system_prompt(a, prompt, READING_TAG[sentence_num]), prompt |-> prompt]

build_examination_prompt(a, sentence_num, user_input, is_timeout, timeout_count) ==
    LET prompt == [Prompt("exam", sentence_num, user_input, is_timeout, timeout_count)
                     EXCEPT !.count = IF is_timeout \/ Truthy(user_input)
                                      THEN timeout_count ELSE 0]
    IN [a |-> add_system_prompt(a, prompt, EXAM_TAG[sentence_num]), prompt |-> prompt]

build_summary_prompt(a) ==
    LET prompt == Prompt("summary", 0, NoneInput, FALSE, 0)
    IN [a |-> add_system_prompt(a, prompt, "summary"), prompt |-> prompt]


(* _generate_llm_response: one generator call; fail is the call raising *)
generate_llm_response(a, prompt, fail) ==
    [raised |-> fail, response |-> Reply(prompt)]

(* response = await _generate_llm_response(prompt);                        *)
(* add_assistant_message(response, tag); return _build_websocket_message   *)
respond(b, fail, tag, waiting, timeout_seconds) ==
    LET g == generate_llm_response(b.a, b.prompt, fail) IN
    IF g.raised THEN Raised(b.a)
    ELSE LET a2 == add_assistant_message(b.a, g.response, tag)
         IN [a |-> a2,
             message |-> build_websocket_message(g.response, a2.state.current_step,
                                                 waiting, timeout_seconds)]

(* Variant: start_teaching advances to the first reading and waits 30 s *)
start_teaching_advancing(a, fail) ==
    LET system_prompt == Prompt("introduction", 0, NoneInput, FALSE, 0)
        a1 == agent_move_to_next_step(add_system_prompt(a, system_prompt, "introduction"))
    IN respond([a |-> a1, prompt |-> system_prompt], fail, "introduction", TRUE, 30)

start_teaching(a, fail) ==
    LET system_prompt == Prompt("introduction", 0, NoneInput, FALSE, 0)
        a1 == add_system_prompt(a, system_prompt, "introduction")
    IN respond([a |-> a1, prompt |-> system_prompt], fail, "introduction", FALSE, NoSeconds)

start_reading_sentence(a, sentence_num, fail) ==
    respond(build_reading_prompt(a, sentence_num, NoneInput, FALSE, 0),
            fail, READING_TAG[sentence_num], TRUE, 30)

(* Variant: the opening exam prompt waits as long as a reading prompt *)
start_examination_sentence_slow(a, sentence_num, fail) ==
    respond(build_examination_prompt(a, sentence_num, NoneInput, FALSE, 0),
            fail, EXAM_TAG[sentence_num], TRUE, 30)

start_examination_sentence(a, sentence_num, fail) ==
    respond(build_examination_prompt(a, sentence_num, NoneInput, FALSE, 0),
            fail, EXAM_TAG[sentence_num], TRUE, 10)

(* Variant: the summary is given but the step is left at SUMMARY *)
handle_summary_staying(a, fail) ==
    LET b == build_summary_prompt(a)
        g == generate_llm_response(b.a, b.prompt, fail)
    IN IF g.raised THEN Raised(b.a)
       ELSE LET a2 == add_assistant_message(b.a, g.response, "summary")
            IN [a |-> a2,
                message |-> build_websocket_message(g.response, a2.state.current_step,
                                                    FALSE, NoSeconds)]

handle_summary(a, fail) ==
    LET b == build_summary_prompt(a)
        g == generate_llm_response(b.a, b.prompt, fail)
    IN IF g.raised THEN Raised(b.a)
       ELSE LET a2 == add_assistant_message(b.a, g.response, "summary")
                a3 == agent_move_to_next_step(a2)
            IN [a |-> a3,
                message |-> build_websocket_message(g.response, a3.state.current_step,
                                                    FALSE, NoSeconds)]

(* Variant: the step is not advanced when sentence 2's reading is left *)
proceed_to_next_reading_step_staying(a, current_sentence_num, fail) ==
    IF current_sentence_num = 1
    THEN start_reading_sentence(agent_move_to_next_step(a), 2, fail)
    ELSE start_examination_sentence(a, 1, fail)

proceed_to_next_reading_step(a, current_sentence_num, fail) ==
    IF current_sentence_num = 1
    THEN start_reading_sentence(agent_move_to_next_step(a), 2, fail)
    ELSE start_examination_sentence(agent_move_to_next_step(a), 1, fail)

proceed_to_next_exam_step(a, current_sentence_num, fail) ==
    IF current_sentence_num = 1
    THEN start_examination_sentence(agent_move_to_next_step(a), 2, fail)
    ELSE handle_summary(agent_move_to_next_step(a), fail)

(* Variant: the introduction handler issues the prompt without advancing *)
handle_introduction_staying(a, user_input, is_timeout, fail) ==
    start_reading_sentence(a, 1, fail)

handle_introduction(a, user_input, is_timeout, fail) ==
    start_reading_sentence(agent_move_to_next_step(a), 1, fail)

(* Variant: the attempt is always recorded for the first sentence *)
handle_reading_step_first_sentence(a, user_input, is_timeout, fail) ==
    LET sentence_num == 1
        reading_count == IF sentence_num = 1 THEN a.state.sentence1_reading_count
                         ELSE a.state.sentence2_reading_count
    IN IF is_timeout
       THEN LET r == record_reading_attempt(a.state, sentence_num, FALSE)
                a1 == [a EXCEPT !.state = r.state]
                timeout_count == IF sentence_num = 1 THEN a1.state.sentence1_timeout_count
                                 ELSE a1.state.sentence2_timeout_count
            IN IF timeout_count <= 2
               THEN respond(build_reading_prompt(a1, sentence_num, NoneInput, TRUE, timeout_count),
                            fail, READING_TAG[sentence_num], TRUE, 10)
               ELSE proceed_to_next_reading_step(
                        agent_record_learning_issue(a1, sentence_num, "no_repeat"),
                        sentence_num, fail)
       ELSE LET r == IF Truthy(user_input)
                     THEN record_reading_attempt(a.state, sentence_num, TRUE)
                     ELSE [state |-> a.state, ret |-> reading_count]
                a1 == [a EXCEPT !.state = r.state]
            IN IF r.ret > 2
               THEN proceed_to_next_reading_step(a1, sentence_num, fail)
               ELSE respond(build_reading_prompt(a1, sentence_num, user_input, FALSE, r.ret),
                            fail, READING_TAG[sentence_num], TRUE, 30)

(* Variant: the re-prompt after a spoken turn waits 10 seconds *)
handle_reading_step_short_retry(a, user_input, is_timeout, fail) ==
    LET sentence_num == IF a.state.current_step = READING_SENTENCE1 THEN 1 ELSE 2
        reading_count == IF sentence_num = 1 THEN a.state.sentence1_reading_count
                         ELSE a.state.sentence2_reading_count
    IN IF is_timeout
       THEN LET r == record_reading_attempt(a.state, sentence_num, FALSE)
                a1 == [a EXCEPT !.state = r.state]
                timeout_count == IF sentence_num = 1 THEN a1.state.sentence1_timeout_count
                                 ELSE a1.state.sentence2_timeout_count
            IN IF timeout_count <= 2
               THEN respond(build_reading_prompt(a1, sentence_num, NoneInput, TRUE, timeout_count),
                            fail, READING_TAG[sentence_num], TRUE, 10)
               ELSE proceed_to_next_reading_step(
                        agent_record_learning_issue(a1, sentence_num, "no_repeat"),
                        sentence_num, fail)
       ELSE LET r == IF Truthy(user_input)
                     THEN record_reading_attempt(a.state, sentence_num, TRUE)
                     ELSE [state |-> a.state, ret |-> reading_count]
                a1 == [a EXCEPT !.state = r.state]
            IN IF r.ret > 2
               THEN proceed_to_next_reading_step(a1, sentence_num, fail)
               ELSE respond(build_reading_prompt(a1, sentence_num, user_input, FALSE, r.ret),
                            fail, READING_TAG[sentence_num], TRUE, 10)

handle_reading_step(a, user_input, is_timeout, fail) ==
    LET sentence_num == IF a.state.current_step = READING_SENTENCE1 THEN 1 ELSE 2
        reading_count == IF sentence_num = 1 THEN a.state.sentence1_reading_count
                         ELSE a.state.sentence2_reading_count
    IN IF is_timeout
       THEN LET r == record_reading_attempt(a.state, sentence_num, FALSE)
                a1 == [a EXCEPT !.state = r.state]
                timeout_count == IF sentence_num = 1 THEN a1.state.sentence1_timeout_count
                                 ELSE a1.state.sentence2_timeout_count
            IN IF timeout_count <= 2
               THEN respond(build_reading_prompt(a1, sentence_num, NoneInput, TRUE, timeout_count),
                            fail, READING_TAG[sentence_num], TRUE, 10)
               ELSE proceed_to_next_reading_step(
                        agent_record_learning_issue(a1, sentence_num, "no_repeat"),
                        sentence_num, fail)
       ELSE LET r == IF Truthy(user_input)
                     THEN record_reading_attempt(a.state, sentence_num, TRUE)
                     ELSE [state |-> a.state, ret |-> reading_count]
                a1 == [a EXCEPT !.state = r.state]
            IN IF r.ret > 2
               THEN proceed_to_next_reading_step(a1, sentence_num, fail)
               ELSE respond(build_reading_prompt(a1, sentence_num, user_input, FALSE, r.ret),
                            fail, READING_TAG[sentence_num], TRUE, 30)

(* Variant: an answer counts only when it matches the sentence *)
handle_examination_step_checked(a, user_input, is_timeout, fail) ==
    LET sentence_num == IF a.state.current_step = EXAMINATION_SENTENCE1 THEN 1 ELSE 2
        exam_attempts == IF sentence_num = 1 THEN a.state.sentence1_exam_attempts
                         ELSE a.state.sentence2_exam_attempts
    IN IF is_timeout
       THEN LET r == record_exam_attempt(a.state, sentence_num, FALSE)
                a1 == [a EXCEPT !.state = r.state]
                exam_timeout_attempts ==
                    IF sentence_num = 1 THEN a1.state.sentence1_timeout_attempts
                    ELSE a1.state.sentence2_timeout_attempts
            IN IF exam_timeout_attempts <= 2
               THEN respond(build_examination_prompt(a1, sentence_num, NoneInput, TRUE,
                                                     exam_timeout_attempts),
                            fail, EXAM_TAG[sentence_num], TRUE, 10)
               ELSE proceed_to_next_exam_step(
                        agent_record_learning_issue(a1, sentence_num, "exam_failed"),
                        sentence_num, fail)
       ELSE LET r == IF Truthy(user_input) /\ user_input = "hi"
                     THEN record_exam_attempt(a.state, sentence_num, TRUE)
                     ELSE [state |-> a.state, ret |-> exam_attempts]
                a1 == [a EXCEPT !.state = r.state]
            IN IF r.ret > 1
               THEN proceed_to_next_exam_step(a1, sentence_num, fail)
               ELSE respond(build_examination_prompt(a1, sentence_num, NoneInput, TRUE, r.ret),
                            fail, EXAM_TAG[sentence_num], TRUE, 10)

handle_examination_step(a, user_input, is_timeout, fail) ==
    LET sentence_num == IF a.state.current_step = EXAMINATION_SENTENCE1 THEN 1 ELSE 2
        exam_attempts == IF sentence_num = 1 THEN a.state.sentence1_exam_attempts
                         ELSE a.state.sentence2_exam_attempts
    IN IF is_timeout
       THEN LET r == record_exam_attempt(a.state, sentence_num, FALSE)
                a1 == [a EXCEPT !.state = r.state]
                exam_timeout_attempts ==
                    IF sentence_num = 1 THEN a1.state.sentence1_timeout_attempts
                    ELSE a1.state.sentence2_timeout_attempts
            IN IF exam_timeout_attempts <= 2
               THEN respond(build_examination_prompt(a1, sentence_num, NoneInput, TRUE,
                                                     exam_timeout_attempts),
                            fail, EXAM_TAG[sentence_num], TRUE, 10)
               ELSE proceed_to_next_exam_step(
                        agent_record_learning_issue(a1, sentence_num, "exam_failed"),
                        sentence_num, fail)
       ELSE LET r == IF Truthy(user_input)
                     THEN record_exam_attempt(a.state, sentence_num, TRUE)
                     ELSE [state |-> a.state, ret |-> exam_attempts]
                a1 == [a EXCEPT !.state = r.state]
            IN IF r.ret > 1
               THEN proceed_to_next_exam_step(a1, sentence_num, fail)
               ELSE respond(build_examination_prompt(a1, sentence_num, NoneInput, TRUE, r.ret),
                            fail, EXAM_TAG[sentence_num], TRUE, 10)

(* Variant: the text that comes with a timeout is logged as a user turn *)
process_user_input_logging_timeouts(a, user_input, is_timeout, fail) ==
    LET current_step == a.state.current_step
        a1 == IF Truthy(user_input)
              THEN add_user_message(a, user_input, current_step) ELSE a
    IN IF current_step = INTRODUCTION
       THEN handle_introduction(a1, user_input, is_timeout, fail)
       ELSE IF current_step \in {READING_SENTENCE1, READING_SENTENCE2}
       THEN handle_reading_step(a1, user_input, is_timeout, fail)
       ELSE IF current_step \in {EXAMINATION_SENTENCE1, EXAMINATION_SENTENCE2}
       THEN handle_examination_step(a1, user_input, is_timeout, fail)
       ELSE IF current_step = SUMMARY
       THEN handle_summary(a1, fail)
       ELSE [a |-> a1, message |-> build_error_message("unknown step")]

(* Variant: the user's text is logged only in a step that has a handler *)
process_user_input_dispatching(a, user_input, is_timeout, fail) ==
    LET current_step == a.state.current_step
        a1 == IF ~is_timeout /\ Truthy(user_input)
              THEN add_user_message(a, user_input, current_step) ELSE a
    IN IF current_step = INTRODUCTION
       THEN handle_introduction(a1, user_input, is_timeout, fail)
       ELSE IF current_step \in {READING_SENTENCE1, READING_SENTENCE2}
       THEN handle_reading_step(a1, user_input, is_timeout, fail)
       ELSE IF current_step \in {EXAMINATION_SENTENCE1, EXAMINATION_SENTENCE2}
       THEN handle_examination_step(a1, user_input, is_timeout, fail)
       ELSE IF current_step = SUMMARY
       THEN handle_summary(a1, fail)
       ELSE [a |-> a, message |-> build_error_message("unknown step")]

process_user_input(a, user_input, is_timeout, fail) ==
    LET current_step == a.state.current_step
        a1 == IF ~is_timeout /\ Truthy(user_input)
              THEN add_user_message(a, user_input, current_step) ELSE a
    IN IF current_step = INTRODUCTION
       THEN handle_introduction(a1, user_input, is_timeout, fail)
       ELSE IF current_step \in {READING_SENTENCE1, READING_SENTENCE2}
       THEN handle_reading_step(a1, user_input, is_timeout, fail)
       ELSE IF current_step \in {EXAMINATION_SENTENCE1, EXAMINATION_SENTENCE2}
       THEN handle_examination_step(a1, user_input, is_timeout, fail)
       ELSE IF current_step = SUMMARY
       THEN handle_summary(a1, fail)
       ELSE [a |-> a1, message |-> build_error_message("unknown step")]

----------------------------------------------------------------------------
(* The session as a state machine *)

(* The agent as the call finds it: nothing written to the transcript yet *)
Agent == [state |-> state, learning_issues |-> learning_issues,
          context |-> <<>>, trace |-> step_trace]

(* Kind of an event: a timeout, a spoken turn, or a turn without text *)
Kind(user_input, is_timeout) ==
    IF is_timeout THEN "timeout" ELSE IF Truthy(user_input) THEN "text" ELSE "empty"

(* Counters of the sentence a phase addresses, all zero? *)
FreshPhase(st) ==
    LET s == st.current_step IN
    /\ s = READING_SENTENCE1 =>
          st.sentence1_reading_count = 0 /\ st.sentence1_timeout_count = 0
    /\ s = READING_SENTENCE2 =>
          st.sentence2_reading_count = 0 /\ st.sentence2_timeout_count = 0
    /\ s = EXAMINATION_SENTENCE1 =>
          st.sentence1_exam_attempts = 0 /\ st.sentence1_timeout_attempts = 0
    /\ s = EXAMINATION_SENTENCE2 =>
          st.sentence2_exam_attempts = 0 /\ st.sentence2_timeout_attempts = 0

NoEvent == [step |-> "none", user_input |-> NoneInput, is_timeout |-> FALSE,
            failed |-> FALSE, run |-> 0, timeouts |-> 0]
NoStreak == [kind |-> "none", n |-> 0]
NoCall == [op |-> "none", sentence_number |-> 0, success |-> FALSE, ret |-> 0]
NoGeneration == [status |-> "idle", attempt_number |-> 0, generations |-> 0, api_calls |-> 0]
(* WebSocketRouteHandler(): teaching_service is None (0); later it names   *)
(* the TeachingService object the handler holds, active_agents is that     *)
(* object's registry, connections the connections handled so far           *)
NoHandler == [teaching_service |-> 0, active_agents |-> <<>>, connections |-> 0]
NoSvcCall == [op |-> "none", session_id |-> 0, response |-> [type |-> "none"]]
NoRead == [of |-> 0, include_system |-> TRUE, failed |-> FALSE, messages |-> <<>>]
Broken == [kind |-> "broken", n |-> 0]

(* The run the event extends: n same-kind events, each answered, since the *)
(* phase was entered with zero counters; broken by any other event.        *)
Extend(sk, kind, raised) ==
    IF raised \/ kind = "empty" \/ sk.kind \notin {"none", kind} THEN Broken
    ELSE [kind |-> kind, n |-> sk.n + 1]

(* The phases that wait for the learner *)
TurnPhases == {READING_SENTENCE1, READING_SENTENCE2,
               EXAMINATION_SENTENCE1, EXAMINATION_SENTENCE2}

Init ==
    /\ state = TeachingState
    /\ learning_issues = <<>>
    /\ appended = <<>>
    /\ message = [type |-> "none"]
    /\ started = FALSE
    /\ step_trace = <<INTRODUCTION>>
    /\ last_event = NoEvent
    /\ streak = NoStreak
    /\ n_events = 0
    /\ clean \in BOOLEAN
    /\ timeouts_in_phase = 0
    /\ call = NoCall
    /\ n_calls = 0
    /\ rows = <<>>
    /\ entries = NoRead
    /\ active_agents = <<>>
    /\ table = <<>>
    /\ svc_call = NoSvcCall
    /\ n_svc = 0
    /\ llm = NoGeneration
    /\ records = <<>>
    /\ websocket_handler = NoHandler

(* TeachingService.start_teaching_session -> agent.start_teaching() *)
StartTeaching ==
    /\ ~started
    /\ \E fail \in BOOLEAN :
         LET r == start_teaching(Agent, fail) IN
         /\ state' = r.a.state
         /\ learning_issues' = r.a.learning_issues
         /\ appended' = r.a.context
         /\ step_trace' = r.a.trace
         /\ message' = r.message
         /\ clean => r.message.type # "exception"
    /\ started' = TRUE
    /\ UNCHANGED <<last_event, streak, n_events, clean, timeouts_in_phase>>
    /\ UNCHANGED <<sm_vars, ctx_vars, svc_vars, llm_vars, ws_vars>>

(* agent.process_user_input(user_input, is_timeout) *)
ProcessUserInput ==
    /\ started
    /\ clean => n_events < MaxEvents
    /\ \E e \in Events, fail \in BOOLEAN :
         LET user_input == e.user_input
             is_timeout == e.is_timeout
             r == process_user_input(Agent, user_input, is_timeout, fail)
             kind == Kind(user_input, is_timeout)
             raised == r.message.type = "exception"
             sk == IF state.current_step \in TurnPhases
                   THEN Extend(streak, kind, raised) ELSE NoStreak
             tp == IF state.current_step \in TurnPhases /\ is_timeout
                   THEN timeouts_in_phase + 1 ELSE timeouts_in_phase
         IN
         /\ state' = r.a.state
         /\ learning_issues' = r.a.learning_issues
         /\ appended' = r.a.context
         /\ step_trace' = r.a.trace
         /\ message' = r.message
         /\ last_event' = [step |-> state.current_step, user_input |-> user_input,
                           is_timeout |-> is_timeout,
                           failed |-> raised, run |-> sk.n, timeouts |-> tp]
         /\ timeouts_in_phase' = IF r.a.state.current_step = state.current_step
                                  THEN tp ELSE 0
         /\ streak' = IF r.a.state.current_step = state.current_step THEN sk
                      ELSE IF FreshPhase(r.a.state) THEN NoStreak ELSE Broken
         /\ clean => (~raised /\ kind # "empty")
         /\ n_events' = IF clean /\ state.current_step # COMPLETED
                         THEN n_events + 1 ELSE n_events
    /\ UNCHANGED <<started, clean>>
    /\ UNCHANGED <<sm_vars, ctx_vars, svc_vars, llm_vars, ws_vars>>

Next == StartTeaching \/ ProcessUserInput

Spec == Init /\ [][Next]_vars

----------------------------------------------------------------------------
(* The sequencer on its own: a TeachingStateMachine whose methods are     *)
(* called directly, in any order, as the unit tests do.                   *)

InitSM ==
    /\ state = TeachingState
    /\ call = NoCall
    /\ n_calls = 0
    /\ learning_issues = <<>>
    /\ appended = <<>>
    /\ message = [type |-> "none"]
    /\ started = FALSE
    /\ step_trace = <<INTRODUCTION>>
    /\ last_event = NoEvent
    /\ streak = NoStreak
    /\ n_events = 0
    /\ clean = FALSE
    /\ timeouts_in_phase = 0
    /\ rows = <<>>
    /\ entries = NoRead
    /\ active_agents = <<>>
    /\ table = <<>>
    /\ svc_call = NoSvcCall
    /\ n_svc = 0
    /\ llm = NoGeneration
    /\ records = <<>>
    /\ websocket_handler = NoHandler

(* state_machine.record_reading_attempt(sentence_number, success) *)
SMRecordReading ==
    /\ n_calls < MaxCalls
    /\ \E sentence_number \in Sentences, success \in BOOLEAN :
         LET r == record_reading_attempt(state, sentence_number, success) IN
         /\ state' = r.state
         /\ call' = [op |-> "record_reading_attempt",
                     sentence_number |-> sentence_number,
                     success |-> success, ret |-> r.ret]
    /\ n_calls' = n_calls + 1
    /\ UNCHANGED <<agent_vars, llm_vars, ws_vars, ctx_vars, svc_vars>>

(* state_machine.record_timeout_attempt(sentence_number, success) *)
SMRecordTimeout ==
    /\ n_calls < MaxCalls
    /\ \E sentence_number \in Sentences, success \in BOOLEAN :
         LET r == record_timeout_attempt(state, sentence_number, success) IN
         /\ state' = r.state
         /\ call' = [op |-> "record_timeout_attempt",
                     sentence_number |-> sentence_number,
                     success |-> success, ret |-> r.ret]
    /\ n_calls' = n_calls + 1
    /\ UNCHANGED <<agent_vars, llm_vars, ws_vars, ctx_vars, svc_vars>>

(* state_machine.record_exam_attempt(sentence_number, success) *)
SMRecordExam ==
    /\ n_calls < MaxCalls
    /\ \E sentence_number \in Sentences, success \in BOOLEAN :
         LET r == record_exam_attempt(state, sentence_number, success) IN
         /\ state' = r.state
         /\ call' = [op |-> "record_exam_attempt",
                     sentence_number |-> sentence_number,
                     success |-> success, ret |-> r.ret]
    /\ n_calls' = n_calls + 1
    /\ UNCHANGED <<agent_vars, llm_vars, ws_vars, ctx_vars, svc_vars>>

(* state_machine.should_proceed_to_next_reading(sentence_number) and      *)
(* should_proceed_to_next_exam(sentence_number); ret is 1 for True        *)
SMShouldProceed ==
    /\ n_calls < MaxCalls
    /\ \E sentence_number \in Sentences :
         \/ call' = [op |-> "should_proceed_to_next_reading",
                     sentence_number |-> sentence_number, success |-> FALSE,
                     ret |-> IF should_proceed_to_next_reading(state, sentence_number)
                             THEN 1 ELSE 0]
         \/ call' = [op |-> "should_proceed_to_next_exam",
                     sentence_number |-> sentence_number, success |-> FALSE,
                     ret |-> IF should_proceed_to_next_exam(state, sentence_number)
                             THEN 1 ELSE 0]
    /\ n_calls' = n_calls + 1
    /\ UNCHANGED <<state, agent_vars, llm_vars, ws_vars, ctx_vars, svc_vars>>

(* state_machine.move_to_next_step() *)
SMMove ==
    /\ n_calls < MaxCalls
    /\ state' = move_to_next_step(state)
    /\ call' = [op |-> "move_to_next_step", sentence_number |-> 0,
                success |-> FALSE, ret |-> 0]
    /\ n_calls' = n_calls + 1
    /\ UNCHANGED <<agent_vars, llm_vars, ws_vars, ctx_vars, svc_vars>>

(* state_machine.reset() *)
SMReset ==
    /\ n_calls < MaxCalls
    /\ state' = reset(state)
    /\ call' = [op |-> "reset", sentence_number |-> 0,
                success |-> FALSE, ret |-> 0]
    /\ n_calls' = n_calls + 1
    /\ UNCHANGED <<agent_vars, llm_vars, ws_vars, ctx_vars, svc_vars>>

NextSM ==
    \/ SMRecordReading
    \/ SMRecordTimeout
    \/ SMRecordExam
    \/ SMShouldProceed
    \/ SMMove
    \/ SMReset

SpecSM == InitSM /\ [][NextSM]_vars

----------------------------------------------------------------------------
(* Vocabulary of the properties *)

Successor(s) == TeachingStep[StepIndex(s) + 1]
READING == <<READING_SENTENCE1, READING_SENTENCE2>>
EXAMINATION == <<EXAMINATION_SENTENCE1, EXAMINATION_SENTENCE2>>

(* Issues of one type for one sentence in the agent's list *)
IssueCount(issues, sentence_num, issue_type) ==
    Cardinality({i \in DOMAIN issues :
                    /\ issues[i].sentence_order = sentence_num
                    /\ issues[i].record_type = issue_type})

Counters(st) ==
    <<st.sentence1_reading_count, st.sentence1_timeout_count,
      st.sentence2_reading_count, st.sentence2_timeout_count,
      st.sentence1_exam_attempts, st.sentence1_timeout_attempts,
      st.sentence2_exam_attempts, st.sentence2_timeout_attempts>>

(* The last call was process_user_input on a spoken turn / a timeout, in   *)
(* phase s, answered by the generator, as the n-th of an unbroken run.     *)
SpokenRun(s, n) ==
    /\ last_event.step = s /\ ~last_event.is_timeout
    /\ Truthy(last_event.user_input) /\ ~last_event.failed /\ last_event.run = n
TimeoutRun(s, n) ==
    /\ last_event.step = s /\ last_event.is_timeout
    /\ ~last_event.failed /\ last_event.run = n

(* start_teaching has returned and no event was delivered yet *)
AfterStart == started /\ last_event.step = "none" /\ message.type = "teaching_response"

Waiting(msg, step, seconds) ==
    /\ msg.type = "teaching_response" /\ msg.step = step
    /\ msg.waiting_for_user /\ "timeout_seconds" \in DOMAIN msg
    /\ msg.timeout_seconds = seconds

----------------------------------------------------------------------------
(* C1: every change of current_step goes from a phase to its immediate     *)
(* successor in the fixed order; the step never moves back, never skips a  *)
(* phase and never leaves COMPLETED.                                       *)
C1_StepOrder ==
    /\ state.current_step = step_trace[Len(step_trace)]
    /\ step_trace[1] = INTRODUCTION
    /\ \A i \in 1..(Len(step_trace) - 1) :
          StepIndex(step_trace[i + 1]) = StepIndex(step_trace[i]) + 1

C1_Witness == state.current_step = COMPLETED /\ Len(step_trace) = 7

(* C2 (as claimed): from READING_N with zero counters, three consecutive   *)
(* spoken turns keep the phase on the first two and leave it on the third, *)
(* with no no_repeat issue for N.                                          *)
C2_ThreeSpokenTurns ==
    \A N \in {1, 2} :
        /\ (SpokenRun(READING[N], 1) \/ SpokenRun(READING[N], 2))
              => state.current_step = READING[N]
        /\ SpokenRun(READING[N], 3)
              => /\ state.current_step = Successor(READING[N])
                 /\ IssueCount(learning_issues, N, "no_repeat") = 0

(* C3: from READING_N with zero counters, three consecutive timeouts keep  *)
(* the phase on the first two, each answered by a slow re-prompt, and      *)
(* leave it on the third with exactly one no_repeat issue for N.           *)
C3_ThreeReadingTimeouts ==
    \A N \in {1, 2} :
        /\ (TimeoutRun(READING[N], 1) \/ TimeoutRun(READING[N], 2))
              => /\ state.current_step = READING[N]
                 /\ Waiting(message, READING[N], 10)
                 /\ message.content.reply_to.state_desc = "timeout"
                 /\ IssueCount(learning_issues, N, "no_repeat") = 0
        /\ TimeoutRun(READING[N], 3)
              => /\ state.current_step = Successor(READING[N])
                 /\ IssueCount(learning_issues, N, "no_repeat") = 1

C3_Witness ==
    /\ TimeoutRun(READING_SENTENCE2, 3)
    /\ state.current_step = EXAMINATION_SENTENCE1
    /\ IssueCount(learning_issues, 1, "no_repeat") = 1

C5_ThreeExamTimeouts ==
    \A N \in {1, 2} :
        /\ (TimeoutRun(EXAMINATION[N], 1) \/ TimeoutRun(EXAMINATION[N], 2))
              => /\ state.current_step = EXAMINATION[N]
                 /\ IssueCount(learning_issues, N, "exam_failed") = 0
        /\ TimeoutRun(EXAMINATION[N], 3)
              => /\ state.current_step # EXAMINATION[N]
                 /\ step_trace[StepIndex(EXAMINATION[N]) + 1] = Successor(EXAMINATION[N])
                 /\ IssueCount(learning_issues, N, "exam_failed") = 1

C5_Witness ==
    /\ TimeoutRun(EXAMINATION_SENTENCE1, 3)
    /\ state.current_step = EXAMINATION_SENTENCE2
    /\ IssueCount(learning_issues, 1, "exam_failed") = 1

(* C6 (as claimed): a call the generator's failure ends leaves every       *)
(* reading, exam and timeout counter as it was before the call.            *)
C6_FailureKeepsCounters ==
    [][message'.type = "exception" => Counters(state') = Counters(state)]_vars

(* C7 (as claimed): a call the generator's failure ends leaves             *)
(* current_step, the mastered flags and the issue log as they were.        *)
C7_FailureKeepsStep ==
    [][message'.type = "exception" =>
          /\ state'.current_step = state.current_step
          /\ state'.sentence1_mastered = state.sentence1_mastered
          /\ state'.sentence2_mastered = state.sentence2_mastered
          /\ learning_issues' = learning_issues]_vars

(* C8: when the generator never fails and every event is a timeout or      *)
(* carries text, the session is COMPLETED after at most 20 events.         *)
C8_BoundedSession ==
    (clean /\ n_events >= 20) => state.current_step = COMPLETED

C8_Witness ==
    /\ clean /\ n_events = 20
    /\ last_event.step = EXAMINATION_SENTENCE2
    /\ state.current_step = COMPLETED

(* C9 (as claimed): start_teaching advances the session to                 *)
(* READING_SENTENCE1 and returns a waiting message with a 30 s timeout.    *)
C9_StartAdvances ==
    AfterStart => /\ state.current_step = READING_SENTENCE1
                  /\ Waiting(message, READING_SENTENCE1, 30)

(* C9 (amended): start_teaching emits the introduction, leaves the session *)
(* in INTRODUCTION and returns a message with step=introduction that does  *)
(* not wait for the user and carries no timeout_seconds.                   *)
C9_StartStaysInIntroduction ==
    AfterStart => /\ state.current_step = INTRODUCTION
                  /\ message.step = INTRODUCTION
                  /\ ~message.waiting_for_user
                  /\ "timeout_seconds" \notin DOMAIN message
                  /\ message.content.reply_to.template = "introduction"
                  /\ Len(appended) = 2
                  /\ appended[2].role = "assistant" /\ appended[2].step = INTRODUCTION

C9_Witness == AfterStart /\ state.current_step = INTRODUCTION

(* C10: after start_teaching the step is still INTRODUCTION; the first     *)
(* event delivered afterwards, whatever it carries, moves the step to      *)
(* READING_SENTENCE1 and returns the first read-aloud prompt, waiting with *)
(* a 30 s timeout, and changes no counter.                                 *)
C10_FirstEventOpensReading ==
    /\ (started /\ last_event.step = "none") => state.current_step = INTRODUCTION
    /\ last_event.step = INTRODUCTION
          => /\ state.current_step = READING_SENTENCE1
             /\ Counters(state) = Counters(TeachingState)
             /\ ~last_event.failed
                   => /\ Waiting(message, READING_SENTENCE1, 30)
                      /\ message.content.reply_to.template = "reading"
                      /\ message.content.reply_to.sentence_num = 1
                      /\ message.content.reply_to.state_desc = "start"

C10_Witness ==
    /\ last_event.step = INTRODUCTION /\ ~last_event.failed
    /\ last_event.user_input = "hi" /\ ~last_event.is_timeout
    /\ state.current_step = READING_SENTENCE1

----------------------------------------------------------------------------
(* ContextService over the conversation_contexts rows of one session.      *)
(* A row is created with created_at = now and read back ordered by         *)
(* created_at, so rows is the table in the order get_by_session returns    *)
(* it.  A message is the dict {role, content} the service builds from a    *)
(* row; idx is the position of its row and is not part of the dict.        *)

(* settings.MAX_CONTEXT_LENGTH is 20 unless the environment sets it; the   *)
(* model runs the service with a window of 2.                              *)
max_context_length == 2

Roles == {"system", "user", "assistant"}
Contents == {"a", "b"}

get_by_session(rs) == rs

Message(rs, i) == [role |-> rs[i].role, content |-> rs[i].content, idx |-> i]

(* dict equality: role and content *)
SameMessage(m1, m2) == m1.role = m2.role /\ m1.content = m2.content
IsIn(m, msgs) == \E j \in DOMAIN msgs : SameMessage(m, msgs[j])

(* for sys_msg in system_messages:                                         *)
(*     if sys_msg not in recent_messages: recent_messages.insert(0, sys_msg) *)
RECURSIVE InsertMissing(_, _)
InsertMissing(system_messages, recent_messages) ==
    IF system_messages = <<>> THEN recent_messages
    ELSE LET sys_msg == Head(system_messages) IN
         InsertMissing(Tail(system_messages),
                       IF IsIn(sys_msg, recent_messages) THEN recent_messages
                       ELSE <<sys_msg>> \o recent_messages)

(* the messages built from the rows, before any truncation *)
Converted(rs, include_system) ==
    LET all_contexts == get_by_session(rs)
        numbered == [i \in DOMAIN all_contexts |-> Message(all_contexts, i)]
    IN SelectSeq(numbered, LAMBDA m : include_system \/ m.role # "system")

get_session_context(rs, include_system, fail) ==
    IF fail THEN <<>>
    ELSE LET messages == Converted(rs, include_system) IN
         IF Len(messages) > max_context_length
         THEN LET system_messages == SelectSeq(messages, LAMBDA m : m.role = "system")
                  recent_messages == SubSeq(messages,
                                            Len(messages) - max_context_length + 1,
                                            Len(messages))
              IN InsertMissing(system_messages, recent_messages)
         ELSE messages

InitCtx ==
    /\ rows = <<>>
    /\ entries = NoRead
    /\ active_agents = <<>>
    /\ table = <<>>
    /\ svc_call = NoSvcCall
    /\ n_svc = 0
    /\ llm = NoGeneration
    /\ records = <<>>
    /\ websocket_handler = NoHandler
    /\ state = TeachingState
    /\ call = NoCall
    /\ n_calls = 0
    /\ learning_issues = <<>>
    /\ appended = <<>>
    /\ message = [type |-> "none"]
    /\ started = FALSE
    /\ step_trace = <<INTRODUCTION>>
    /\ last_event = NoEvent
    /\ streak = NoStreak
    /\ n_events = 0
    /\ clean = FALSE
    /\ timeouts_in_phase = 0

(* context_service.add_to_context(session_id, role, content, step) *)
AddToContext ==
    /\ Len(rows) < MaxRows
    /\ \E role \in Roles, content \in Contents :
         rows' = Append(rows, [role |-> role, content |-> content])
    /\ UNCHANGED <<entries, state, sm_vars, agent_vars, llm_vars, ws_vars, svc_vars>>

(* Variant: a read keeps only the window in the table *)
GetSessionContext_trimming ==
    /\ \E include_system \in BOOLEAN, fail \in BOOLEAN :
         entries' = [of |-> Len(rows), include_system |-> include_system,
                     failed |-> fail,
                     messages |-> get_session_context(rows, include_system, fail)]
    /\ rows' = IF Len(rows) > max_context_length
               THEN SubSeq(rows, Len(rows) - max_context_length + 1, Len(rows))
               ELSE rows
    /\ UNCHANGED <<state, sm_vars, agent_vars, llm_vars, ws_vars, svc_vars>>

(* context_service.get_session_context(session_id, include_system) *)
GetSessionContext ==
    /\ \E include_system \in BOOLEAN, fail \in BOOLEAN :
         entries' = [of |-> Len(rows), include_system |-> include_system,
                     failed |-> fail,
                     messages |-> get_session_context(rows, include_system, fail)]
    /\ UNCHANGED <<rows, state, sm_vars, agent_vars, llm_vars, ws_vars, svc_vars>>

NextCtx == AddToContext \/ GetSessionContext

SpecCtx == InitCtx /\ [][NextCtx]_vars

----------------------------------------------------------------------------
(* Vocabulary of the claims about direct calls on the sequencer *)

ReadCount(st, n) == IF n = 1 THEN st.sentence1_reading_count ELSE st.sentence2_reading_count
ReadTimeouts(st, n) == IF n = 1 THEN st.sentence1_timeout_count ELSE st.sentence2_timeout_count
ExamCount(st, n) == IF n = 1 THEN st.sentence1_exam_attempts ELSE st.sentence2_exam_attempts
ExamTimeouts(st, n) == IF n = 1 THEN st.sentence1_timeout_attempts ELSE st.sentence2_timeout_attempts
Mastered(st, n) == IF n = 1 THEN st.sentence1_mastered ELSE st.sentence2_mastered

(* The step taken is a direct call of op with the given outcome flag *)
Called(op, success) ==
    /\ n_calls' = n_calls + 1
    /\ call'.op = op
    /\ call'.success = success

(* C11 (as claimed): a successful record_reading_attempt raises the        *)
(* sentence's reading count by exactly one, returns the count after the    *)
(* increment, and the sentence is mastered as soon as the count is 2.      *)
C11_SuccessReturnsNewCount ==
    [][Called("record_reading_attempt", TRUE) =>
          LET n == call'.sentence_number IN
          /\ ReadCount(state', n) = ReadCount(state, n) + 1
          /\ call'.ret = ReadCount(state', n)
          /\ (ReadCount(state', n) >= 2 => Mastered(state', n))]_vars

C14_ExamFailure ==
    [][Called("record_exam_attempt", FALSE) =>
          LET n == call'.sentence_number
              logged == ExamCount(state, n) >= max_exam_attempts
              issue == [sentence_number |-> n, issue_type |-> "exam_failed",
                        step |-> state.current_step]
          IN
          /\ [state' EXCEPT !.learning_issues = state.learning_issues]
                = IF n = 1
                  THEN [state EXCEPT !.sentence1_timeout_attempts = @ + 1]
                  ELSE [state EXCEPT !.sentence2_timeout_attempts = @ + 1]
          /\ state'.learning_issues = IF logged
                                      THEN Append(state.learning_issues, issue)
                                      ELSE state.learning_issues
          /\ call'.ret = ExamCount(state, n)]_vars

C14_Witness ==
    /\ call.op = "record_exam_attempt" /\ ~call.success
    /\ call.sentence_number = 1 /\ call.ret = 2
    /\ state.sentence1_timeout_attempts = 1
    /\ Len(state.learning_issues) = 1
    /\ state.learning_issues[1].issue_type = "exam_failed"

(* C20: a mastered flag that is true stays true over every call but        *)
(* reset(), and reset() leaves both flags false.                           *)
C20_MasteredIsSticky ==
    [][\A n \in Sentences :
          /\ (call'.op # "reset" /\ Mastered(state, n)) => Mastered(state', n)
          /\ Called("reset", FALSE) => ~Mastered(state', n)]_vars

C20_Witness ==
    /\ call.op = "record_exam_attempt" /\ ~call.success
    /\ call.sentence_number = 1
    /\ state.sentence1_mastered
    /\ state.sentence1_timeout_attempts = 1

----------------------------------------------------------------------------
(* The last call was process_user_input on a timeout in phase s, the n-th  *)
(* timeout delivered since the phase was entered.                          *)
PhaseTimeout(s, n) ==
    /\ last_event.step = s /\ last_event.is_timeout
    /\ last_event.timeouts = n

----------------------------------------------------------------------------
(* The step taken is process_user_input on an event without text that is   *)
(* not a timeout, delivered in phase s and answered by the generator.      *)
EmptyTurn(s) ==
    /\ started /\ state.current_step = s
    /\ last_event'.step = s
    /\ ~last_event'.is_timeout
    /\ ~Truthy(last_event'.user_input)
    /\ ~last_event'.failed

UserRows(ctx) == {i \in DOMAIN ctx : ctx[i].role = "user"}

(* C15 (as claimed): in READING_N an event without text that is not a      *)
(* timeout is answered with the read-aloud prompt of the same sentence:    *)
(* the step, every counter and flag and the issue log stay as they are     *)
(* and no user entry is written, whatever the counters are.                *)
C15_EmptyTurnRepeatsPrompt ==
    [][\A N \in Sentences :
          EmptyTurn(READING[N]) =>
              /\ state' = state
              /\ learning_issues' = learning_issues
              /\ UserRows(appended') = {}
              /\ Waiting(message', READING[N], 30)]_vars

(* The closing message was given: it is the last row written, the step is  *)
(* COMPLETED and the message returned does not wait for the learner.       *)
Closed ==
    /\ state.current_step = COMPLETED
    /\ Len(appended) > 0
    /\ appended[Len(appended)].role = "assistant"
    /\ appended[Len(appended)].step = "summary"
    /\ message.type = "teaching_response"
    /\ message.content = appended[Len(appended)].content
    /\ ~message.waiting_for_user
    /\ "timeout_seconds" \notin DOMAIN message

(* C16: a call that handles SUMMARY, and likewise the call whose event     *)
(* finishes EXAM_2, appends the closing message, ends with the step        *)
(* COMPLETED and returns a message that does not wait and has no timeout.  *)
C16_SummaryCompletes ==
    ~last_event.failed =>
        /\ last_event.step = SUMMARY => Closed
        /\ (last_event.step = EXAMINATION_SENTENCE2
               /\ state.current_step # EXAMINATION_SENTENCE2) => Closed

C16_Witness ==
    /\ last_event.step = EXAMINATION_SENTENCE2
    /\ ~last_event.failed
    /\ Closed

(* C17 (as claimed): an event delivered in COMPLETED is answered with an   *)
(* error message and changes neither the state nor the issue log nor the   *)
(* transcript.                                                             *)
C17_CompletedChangesNothing ==
    [][(started /\ state.current_step = COMPLETED) =>
          /\ message'.type = "error"
          /\ state' = state
          /\ learning_issues' = learning_issues
          /\ appended' = <<>>]_vars

(* C17 (amended): an event delivered in COMPLETED is answered with an      *)
(* error message and changes neither the state nor the issue log; the      *)
(* transcript gains the user's entry, tagged completed, when the event is  *)
(* not a timeout and carries text, and nothing otherwise.                  *)
C17_CompletedOnlyLogsUserTurn ==
    [][(started /\ state.current_step = COMPLETED) =>
          /\ message'.type = "error"
          /\ state' = state
          /\ learning_issues' = learning_issues
          /\ appended' = IF ~last_event'.is_timeout /\ Truthy(last_event'.user_input)
                         THEN <<[role |-> "user",
                                 content |-> [text |-> last_event'.user_input],
                                 step |-> COMPLETED]>>
                         ELSE <<>>]_vars

C17_Witness ==
    /\ last_event.step = COMPLETED
    /\ ~last_event.is_timeout /\ last_event.user_input = "hi"
    /\ message.type = "error"
    /\ state.current_step = COMPLETED
    /\ Len(appended) = 1 /\ appended[1].role = "user"

----------------------------------------------------------------------------
(* What the last get_session_context read: the rows that existed then,     *)
(* as messages, the system ones left out if the caller asked so.           *)
Visible == Converted(SubSeq(rows, 1, entries.of), entries.include_system)
Truncated == ~entries.failed /\ Len(Visible) > max_context_length
Returned == entries.messages

(* C18 (as claimed): the messages get_session_context returns are in the   *)
(* order their rows were inserted, also when the list was truncated and    *)
(* system messages were put back in front.                                 *)
C18_InsertionOrder ==
    \A i, j \in DOMAIN Returned :
        i < j => Returned[i].idx < Returned[j].idx

(* C19 (as claimed): when there are more messages than the window, the     *)
(* result ends with the most recent max_context_length messages, contains  *)
(* every system message of the transcript, identical ones included, and    *)
(* contains no older message that is not a system message.                 *)
C19_SystemEntriesKept ==
    Truncated =>
        LET n == Len(Visible)
            first == n - max_context_length + 1
        IN
        /\ Len(Returned) >= max_context_length
        /\ SubSeq(Returned, Len(Returned) - max_context_length + 1, Len(Returned))
              = SubSeq(Visible, first, n)
        /\ \A i \in DOMAIN Visible :
              Visible[i].role = "system"
                  => \E j \in DOMAIN Returned : Returned[j].idx = Visible[i].idx
        /\ \A j \in DOMAIN Returned :
              Returned[j].idx < Visible[first].idx => Returned[j].role = "system"

----------------------------------------------------------------------------
(* C21: in a session driven by the agent the reading count and reading     *)
(* timeout count of sentence N change only in a call that starts in        *)
(* READING_N, and its exam count and exam timeout count only in a call     *)
(* that starts in EXAM_N.                                                  *)
C21_CountersBelongToPhase ==
    [][\A N \in Sentences :
          /\ state.current_step # READING[N]
                => /\ ReadCount(state', N) = ReadCount(state, N)
                   /\ ReadTimeouts(state', N) = ReadTimeouts(state, N)
          /\ state.current_step # EXAMINATION[N]
                => /\ ExamCount(state', N) = ExamCount(state, N)
                   /\ ExamTimeouts(state', N) = ExamTimeouts(state, N)]_vars

(* a spoken turn was handled in READING_2 while sentence 1 has counts of   *)
(* its own from READING_1                                                  *)
C21_Witness ==
    /\ last_event.step = READING_SENTENCE2
    /\ ~last_event.is_timeout /\ Truthy(last_event.user_input)
    /\ state.sentence1_reading_count = 2
    /\ state.sentence1_timeout_count = 3
    /\ state.sentence2_reading_count = 1
    /\ state.sentence2_timeout_count = 0

----------------------------------------------------------------------------
(* The phase a returned message was produced for: the step it names,       *)
(* except that the closing message names COMPLETED and belongs to SUMMARY. *)
ProducedFor(msg) == IF msg.step = COMPLETED THEN SUMMARY ELSE msg.step

(* C22: the assistant message a call returns is the last row the call      *)
(* wrote, tagged with the phase it was produced for; a call on an event    *)
(* that is not a timeout and has text writes, first, one user row with     *)
(* that text, tagged with the step the call started in; a call on any      *)
(* other event, a timeout with text included, writes no user row.          *)
C22_TurnsAreLogged ==
    /\ message.type = "teaching_response"
          => /\ Len(appended) > 0
             /\ appended[Len(appended)] = [role |-> "assistant",
                                           content |-> message.content,
                                           step |-> ProducedFor(message)]
    /\ last_event.step # "none"
          => IF ~last_event.is_timeout /\ Truthy(last_event.user_input)
             THEN /\ UserRows(appended) = {1}
                  /\ appended[1] = [role |-> "user",
                                    content |-> [text |-> last_event.user_input],
                                    step |-> last_event.step]
             ELSE UserRows(appended) = {}

(* a timeout that carries text was answered, and no user row was written *)
C22_Witness ==
    /\ last_event.step = READING_SENTENCE1
    /\ last_event.is_timeout /\ last_event.user_input = "hi"
    /\ message.type = "teaching_response"
    /\ UserRows(appended) = {}
    /\ appended[Len(appended)].role = "assistant"

----------------------------------------------------------------------------
(* TeachingService: the agents of several sessions in one dict, and the    *)
(* conversation_contexts table they all write through their own            *)
(* ContextService.  A stored agent is its session_id, its sequencer state  *)
(* and its issue list; a table row keeps session_id, role and step.        *)

Put(agents, session_id, agent) ==
    [k \in DOMAIN agents \cup {session_id} |->
        IF k = session_id THEN agent ELSE agents[k]]
Pop(agents, session_id) ==
    [k \in DOMAIN agents \ {session_id} |-> agents[k]]

(* Variant: every agent writes and reads under the session id 1 *)
new_agent_shared(session_id) ==
    [session_id |-> 1, state |-> TeachingState, learning_issues |-> <<>>]

(* TeachingAgent(user_id, session_id, lesson_content, db_session) *)
new_agent(session_id) ==
    [session_id |-> session_id, state |-> TeachingState, learning_issues |-> <<>>]

(* the agent as a call finds it, and as the call leaves it *)
AgentOf(ag) ==
    [state |-> ag.state, learning_issues |-> ag.learning_issues,
     context |-> <<>>, trace |-> <<ag.state.current_step>>]
Stored(ag, r) ==
    [session_id |-> ag.session_id, state |-> r.a.state,
     learning_issues |-> r.a.learning_issues]

(* the rows a call wrote: context_service.add_to_context(self.session_id, ...) *)
Written(ag, r) ==
    [i \in DOMAIN r.a.context |->
        [session_id |-> ag.session_id,
         role |-> r.a.context[i].role, step |-> r.a.context[i].step]]

svc_build_error_message(error_msg) == [type |-> "error", content |-> error_msg]

InitSvc ==
    /\ active_agents = <<>>
    /\ table = <<>>
    /\ svc_call = NoSvcCall
    /\ n_svc = 0
    /\ llm = NoGeneration
    /\ records = <<>>
    /\ websocket_handler = NoHandler
    /\ rows = <<>>
    /\ entries = NoRead
    /\ state = TeachingState
    /\ call = NoCall
    /\ n_calls = 0
    /\ learning_issues = <<>>
    /\ appended = <<>>
    /\ message = [type |-> "none"]
    /\ started = FALSE
    /\ step_trace = <<INTRODUCTION>>
    /\ last_event = NoEvent
    /\ streak = NoStreak
    /\ n_events = 0
    /\ clean = FALSE
    /\ timeouts_in_phase = 0

(* What a TeachingService method leaves behind: the registry, the rows    *)
(* written to conversation_contexts, the learning records, the response.   *)
Outcome(agents, written, recs, response) ==
    [active_agents |-> agents, written |-> written, records |-> recs,
     response |-> response]

(* RecordService.record_learning_issues: one learning record per issue *)
record_learning_issues(recs, session_id, issues) ==
    recs \o [i \in DOMAIN issues |->
                [session_id |-> session_id,
                 sentence_order |-> issues[i].sentence_order,
                 record_type |-> issues[i].record_type]]

(* TeachingService._handle_teaching_completion(agent), awaited.  With      *)
(* issues, the records are written and the first _add_to_review_list call  *)
(* raises (it names an undefined issue_type); without issues, the await of *)
(* advance_user_lesson's bool raises TypeError.  Either way the except     *)
(* clause logs it and active_agents.pop is not reached.                    *)
handle_teaching_completion(agents, recs, agent) ==
    [active_agents |-> agents,
     records |-> IF agent.learning_issues # <<>>
                 THEN record_learning_issues(recs, agent.session_id, agent.learning_issues)
                 ELSE recs]

(* TeachingService.start_teaching_session(user_id, session_id, lesson_id) *)
start_teaching_session(agents, recs, session_id, lesson, fail) ==
    IF ~lesson
    THEN Outcome(agents, <<>>, recs, svc_build_error_message("start failed"))
    ELSE LET agent == new_agent(session_id)
             r == start_teaching(AgentOf(agent), fail)
         IN Outcome(Put(agents, session_id, Stored(agent, r)), Written(agent, r), recs,
                    IF r.message.type = "exception"
                    THEN svc_build_error_message("start failed") ELSE r.message)

(* await teaching_service.process_user_message(session_id, user_input).    *)
(* The method is not a coroutine: it returns agent.process_user_input(...) *)
(* without running it, after testing is_teaching_complete on the state the *)
(* agent had before the event; _handle_teaching_completion(agent) is only  *)
(* called there, never awaited, so none of it runs.  The caller's await    *)
(* runs the agent; awaiting the error dict of a missing session raises.    *)
process_user_message(agents, recs, session_id, user_input, fail) ==
    IF session_id \notin DOMAIN agents
    THEN Outcome(agents, <<>>, recs, [type |-> "exception"])
    ELSE LET agent == agents[session_id]
             r == process_user_input(AgentOf(agent), user_input, FALSE, fail)
         IN Outcome(Put(agents, session_id, Stored(agent, r)), Written(agent, r),
                    recs, r.message)

(* await teaching_service.process_timeout(session_id, step) *)
process_timeout(agents, recs, session_id, fail) ==
    IF session_id \notin DOMAIN agents
    THEN Outcome(agents, <<>>, recs, svc_build_error_message("no session"))
    ELSE LET agent == agents[session_id]
             r == process_user_input(AgentOf(agent), NoneInput, TRUE, fail)
             after == Put(agents, session_id, Stored(agent, r))
         IN IF r.message.type = "exception"
            THEN Outcome(after, Written(agent, r), recs,
                         svc_build_error_message("timeout failed"))
            ELSE IF is_teaching_complete(r.a.state)
            THEN LET h == handle_teaching_completion(after, recs, Stored(agent, r))
                 IN Outcome(h.active_agents, Written(agent, r), h.records, r.message)
            ELSE Outcome(after, Written(agent, r), recs, r.message)

(* await teaching_service.end_teaching_session(session_id): with issues,   *)
(* the records are written, the await of record_learning_issues's bool     *)
(* raises TypeError and False is returned before the pop; without issues   *)
(* the agent is popped.                                                    *)
end_teaching_session(agents, recs, session_id) ==
    IF session_id \notin DOMAIN agents
    THEN Outcome(agents, <<>>, recs, [type |-> "none"])
    ELSE LET agent == agents[session_id] IN
         IF agent.learning_issues # <<>>
         THEN Outcome(agents, <<>>,
                      record_learning_issues(recs, session_id, agent.learning_issues),
                      [type |-> "none"])
         ELSE Outcome(Pop(agents, session_id), <<>>, recs, [type |-> "none"])

(* The call op, made for session_id on the service, left the outcome o *)
Serve(op, session_id, o) ==
    /\ active_agents' = o.active_agents
    /\ table' = table \o o.written
    /\ records' = o.records
    /\ svc_call' = [op |-> op, session_id |-> session_id, response |-> o.response]
    /\ n_svc' = n_svc + 1

SvcStart ==
    /\ n_svc < MaxSvcCalls
    /\ \E session_id \in SessionIds, lesson \in BOOLEAN, fail \in BOOLEAN :
         Serve("start_teaching_session", session_id,
               start_teaching_session(active_agents, records, session_id, lesson, fail))
    /\ UNCHANGED <<state, agent_vars, llm_vars, ws_vars, sm_vars, ctx_vars>>

SvcMessage ==
    /\ n_svc < MaxSvcCalls
    /\ \E session_id \in SessionIds, user_input \in {"", "hi"}, fail \in BOOLEAN :
         Serve("process_user_message", session_id,
               process_user_message(active_agents, records, session_id, user_input, fail))
    /\ UNCHANGED <<state, agent_vars, llm_vars, ws_vars, sm_vars, ctx_vars>>

SvcTimeout ==
    /\ n_svc < MaxSvcCalls
    /\ \E session_id \in SessionIds, fail \in BOOLEAN :
         Serve("process_timeout", session_id,
               process_timeout(active_agents, records, session_id, fail))
    /\ UNCHANGED <<state, agent_vars, llm_vars, ws_vars, sm_vars, ctx_vars>>

SvcEnd ==
    /\ n_svc < MaxSvcCalls
    /\ \E session_id \in SessionIds :
         Serve("end_teaching_session", session_id,
               end_teaching_session(active_agents, records, session_id))
    /\ UNCHANGED <<state, agent_vars, llm_vars, ws_vars, sm_vars, ctx_vars>>

NextSvc == SvcStart \/ SvcMessage \/ SvcTimeout \/ SvcEnd

SpecSvc == InitSvc /\ [][NextSvc]_vars

(* the rows of one session, in table order *)
Transcript(tbl, session_id) == SelectSeq(tbl, LAMBDA row : row.session_id = session_id)

(* C23: a call for one session leaves every other session as it was: its  *)
(* entry in active_agents (step, counters, flags, issue list) and the rows *)
(* of the table under its id; and an agent is stored under its own id.     *)
C23_SessionsAreIndependent ==
    [][\A other \in SessionIds :
          other # svc_call'.session_id =>
              /\ (other \in DOMAIN active_agents') = (other \in DOMAIN active_agents)
              /\ other \in DOMAIN active_agents
                    => /\ active_agents'[other] = active_agents[other]
                       /\ active_agents[other].session_id = other
              /\ Transcript(table', other) = Transcript(table, other)]_vars

(* session 2 handled a timeout while session 1 is under way *)
C23_Witness ==
    /\ svc_call.op = "process_timeout" /\ svc_call.session_id = 2
    /\ svc_call.response.type = "teaching_response"
    /\ DOMAIN active_agents = {1, 2}
    /\ active_agents[1].state.current_step = READING_SENTENCE1
    /\ active_agents[2].state.current_step = READING_SENTENCE1
    /\ Len(Transcript(table, 1)) > 0

----------------------------------------------------------------------------
(* The last call returned a prompt for step s: the opening prompt if the   *)
(* call started in another step, a re-prompt if it started in s.           *)
Prompted(s) == message.type = "teaching_response" /\ message.step = s
Opening(s) == Prompted(s) /\ last_event.step # s
Retry(s) == Prompted(s) /\ last_event.step = s

(* C24: a prompt for an exam phase waits 10 seconds; a prompt for a        *)
(* reading phase waits 30 seconds when it opens the phase or answers an    *)
(* event that is not a timeout, and 10 seconds when it answers a timeout.  *)
C24_TimeoutBudgets ==
    \A N \in Sentences :
        /\ Prompted(EXAMINATION[N]) => Waiting(message, EXAMINATION[N], 10)
        /\ Opening(READING[N]) => Waiting(message, READING[N], 30)
        /\ (Retry(READING[N]) /\ ~last_event.is_timeout)
              => Waiting(message, READING[N], 30)
        /\ (Retry(READING[N]) /\ last_event.is_timeout)
              => Waiting(message, READING[N], 10)

(* an answer in EXAM_1 was followed by a re-prompt that waits 10 seconds *)
C24_Witness ==
    /\ Retry(EXAMINATION_SENTENCE1)
    /\ ~last_event.is_timeout /\ Truthy(last_event.user_input)
    /\ Waiting(message, EXAMINATION_SENTENCE1, 10)

(* C25 (as claimed): in a reading phase the opening prompt waits 30        *)
(* seconds and every re-prompt, after a timeout or after a spoken turn,    *)
(* waits 10 seconds.                                                       *)
C25_OnlyOpeningWaits30 ==
    \A N \in Sentences :
        /\ Opening(READING[N]) => Waiting(message, READING[N], 30)
        /\ Retry(READING[N]) => Waiting(message, READING[N], 10)

(* C25 (amended): a prompt for a reading phase waits 10 seconds exactly    *)
(* when it answers a timeout handled in that phase; the opening prompt     *)
(* and the re-prompt after a turn that is not a timeout wait 30 seconds.   *)
C25_OnlyTimeoutRetryWaits10 ==
    \A N \in Sentences :
        Prompted(READING[N]) =>
            /\ message.waiting_for_user
            /\ "timeout_seconds" \in DOMAIN message
            /\ message.timeout_seconds \in {10, 30}
            /\ message.timeout_seconds = 10
                  <=> (last_event.step = READING[N] /\ last_event.is_timeout)

(* a spoken turn in READING_1 was followed by a re-prompt that waits 30 s *)
C25_Witness ==
    /\ Retry(READING_SENTENCE1)
    /\ ~last_event.is_timeout /\ Truthy(last_event.user_input)
    /\ Waiting(message, READING_SENTENCE1, 30)

----------------------------------------------------------------------------
(* C26: a teaching message has the field timeout_seconds exactly when      *)
(* waiting_for_user is true; a message for a reading or exam step waits    *)
(* and names a timeout, and the introduction message and the closing       *)
(* message do not wait and name none.                                      *)
C26_TimeoutIffWaiting ==
    message.type = "teaching_response" =>
        /\ ("timeout_seconds" \in DOMAIN message) <=> message.waiting_for_user
        /\ message.step \in TurnPhases
              => /\ message.waiting_for_user
                 /\ "timeout_seconds" \in DOMAIN message
                 /\ message.timeout_seconds > 0
        /\ message.step \notin TurnPhases
              => /\ message.step \in {INTRODUCTION, COMPLETED}
                 /\ ~message.waiting_for_user
                 /\ "timeout_seconds" \notin DOMAIN message

(* the closing message: not waiting, no timeout *)
C26_Witness ==
    /\ message.type = "teaching_response"
    /\ message.step = COMPLETED
    /\ message.content.reply_to.template = "summary"
    /\ ~message.waiting_for_user
    /\ DOMAIN message = {"type", "content", "step", "waiting_for_user"}

----------------------------------------------------------------------------
(* The last call handled an answer (an event with text, not a timeout)     *)
(* that arrived in step s.                                                 *)
Answered(s) ==
    /\ last_event.step = s
    /\ ~last_event.is_timeout
    /\ Truthy(last_event.user_input)

----------------------------------------------------------------------------
Queries == {"should_proceed_to_next_reading", "should_proceed_to_next_exam"}

C29_FreshAfterReset ==
    (n_calls = 0 \/ call.op = "reset") =>
        /\ state.current_step = INTRODUCTION
        /\ Counters(state) = <<0, 0, 0, 0, 0, 0, 0, 0>>
        /\ ~state.sentence1_mastered
        /\ ~state.sentence2_mastered
        /\ state.learning_issues = <<>>
        /\ DOMAIN state = DOMAIN TeachingState

(* reset was called after other calls *)
C29_Witness ==
    /\ call.op = "reset"
    /\ n_calls >= 3
    /\ state.current_step = INTRODUCTION

----------------------------------------------------------------------------
----------------------------------------------------------------------------
(* LLMClient as the agent uses it.  _generate_llm_response calls           *)
(* generate_teaching_response, which awaits generate_response once;        *)
(* generate_response is wrapped in tenacity's @retry, so one call of it    *)
(* is a series of API calls: each one returns the content or raises, and   *)
(* after a raise the wrapper stops or waits and calls again.               *)

(* @retry(stop=stop_after_attempt(3), ...) *)
stop_after_attempt == 3
retry_stop(attempt_number) == attempt_number >= stop_after_attempt

InitLLM ==
    /\ llm = NoGeneration
    /\ records = <<>>
    /\ websocket_handler = NoHandler
    /\ active_agents = <<>>
    /\ table = <<>>
    /\ svc_call = NoSvcCall
    /\ n_svc = 0
    /\ rows = <<>>
    /\ entries = NoRead
    /\ state = TeachingState
    /\ call = NoCall
    /\ n_calls = 0
    /\ learning_issues = <<>>
    /\ appended = <<>>
    /\ message = [type |-> "none"]
    /\ started = FALSE
    /\ step_trace = <<INTRODUCTION>>
    /\ last_event = NoEvent
    /\ streak = NoStreak
    /\ n_events = 0
    /\ clean = FALSE
    /\ timeouts_in_phase = 0

(* agent._generate_llm_response(prompt): the one generation a handled      *)
(* event asks for                                                          *)
GenerateTeachingResponse ==
    /\ llm.status \in {"idle", "returned", "raised"}
    /\ llm.generations < MaxGenerations
    /\ llm' = [llm EXCEPT !.status = "calling", !.attempt_number = 0,
                          !.generations = @ + 1]
    /\ UNCHANGED <<state, agent_vars, sm_vars, ctx_vars, svc_vars, ws_vars>>

(* one run of the body of generate_response: client.chat.completions.create *)
(* returns (ok) or raises; the wrapper re-raises when retry_stop holds and  *)
(* otherwise waits and runs the body again                                  *)
ApiCall ==
    /\ llm.status = "calling"
    /\ \E ok \in BOOLEAN :
         LET attempt_number == llm.attempt_number + 1 IN
         llm' = [llm EXCEPT !.attempt_number = attempt_number,
                            !.api_calls = @ + 1,
                            !.status = IF ok THEN "returned"
                                       ELSE IF retry_stop(attempt_number) THEN "raised"
                                       ELSE "calling"]
    /\ UNCHANGED <<state, agent_vars, sm_vars, ctx_vars, svc_vars, ws_vars>>

NextLLM == GenerateTeachingResponse \/ ApiCall

SpecLLM == InitLLM /\ [][NextLLM]_vars

(* C31 (as claimed): a generation makes one attempt: its failure reaches   *)
(* the caller after a single API call, so there are never more API calls   *)
(* than generations asked for.                                             *)
C31_NoInfrastructureRetry ==
    /\ llm.attempt_number <= 1
    /\ llm.api_calls <= llm.generations
    /\ llm.status = "raised" => llm.attempt_number = 1

----------------------------------------------------------------------------
(* What the repository's tests expect of the thresholds *)

(* C32 (as claimed): every call of record_reading_attempt for sentence 1   *)
(* raises sentence1_reading_count by one, whatever the success flag is, so *)
(* one call with the default flag on a fresh sequencer leaves the count 1. *)
C32_EveryCallCounts ==
    [][(/\ n_calls' = n_calls + 1
        /\ call'.op = "record_reading_attempt"
        /\ call'.sentence_number = 1)
          => state'.sentence1_reading_count = state.sentence1_reading_count + 1]_vars

(* C33 (as claimed): from READING_SENTENCE1 entered with zero counters the *)
(* first spoken turn keeps the step and the second moves it to             *)
(* READING_SENTENCE2.                                                      *)
C33_SecondTurnAdvances ==
    /\ SpokenRun(READING_SENTENCE1, 1) => state.current_step = READING_SENTENCE1
    /\ SpokenRun(READING_SENTENCE1, 2) => state.current_step = READING_SENTENCE2

(* C34 (as claimed): from EXAMINATION_SENTENCE2 entered with zero counters *)
(* a single spoken answer ends the lesson: the step is COMPLETED when that *)
(* call returns.                                                           *)
C34_SingleAnswerCompletes ==
    SpokenRun(EXAMINATION_SENTENCE2, 1) => state.current_step = COMPLETED

----------------------------------------------------------------------------
(* The two issue logs *)

IssueTypes == {"no_repeat", "exam_failed"}

(* The phase in which an issue of the given type is raised for sentence N *)
IssuePhase(N, issue_type) ==
    IF issue_type = "no_repeat" THEN READING[N] ELSE EXAMINATION[N]

(* C35: the agent's issue log holds at most one no_repeat and at most one  *)
(* exam_failed issue per sentence and nothing else (four issues at most);  *)
(* an issue for sentence N is added only by an event handled in the        *)
(* matching phase (READING_N for no_repeat, EXAM_N for exam_failed), one   *)
(* at a time, and the same call moves the step out of that phase.          *)
C35_OneIssuePerPhase ==
    [][/\ Len(learning_issues') <= 4
       /\ \A i \in DOMAIN learning_issues' :
             /\ learning_issues'[i].sentence_order \in {1, 2}
             /\ learning_issues'[i].record_type \in IssueTypes
       /\ \A N \in {1, 2}, t \in IssueTypes :
             /\ IssueCount(learning_issues', N, t) <= 1
             /\ IssueCount(learning_issues', N, t) # IssueCount(learning_issues, N, t)
                   => /\ state.current_step = IssuePhase(N, t)
                      /\ state'.current_step # IssuePhase(N, t)
                      /\ last_event'.step = IssuePhase(N, t)
                      /\ last_event'.is_timeout
                      /\ Len(learning_issues') = Len(learning_issues) + 1]_vars

C35_Witness ==
    /\ Len(learning_issues) = 4
    /\ \A N \in {1, 2}, t \in IssueTypes : IssueCount(learning_issues, N, t) = 1
    /\ last_event.step = EXAMINATION_SENTENCE2 /\ last_event.is_timeout
    /\ last_event.failed
    /\ state.current_step = SUMMARY

(* state_machine.get_state_data(), which get_session_status reports from *)
get_state_data(st) ==
    [current_step |-> st.current_step,
     sentence1_reading_count |-> st.sentence1_reading_count,
     sentence2_reading_count |-> st.sentence2_reading_count,
     sentence1_exam_attempts |-> st.sentence1_exam_attempts,
     sentence2_exam_attempts |-> st.sentence2_exam_attempts,
     sentence1_mastered |-> st.sentence1_mastered,
     sentence2_mastered |-> st.sentence2_mastered,
     learning_issues_count |-> Len(st.learning_issues)]

(* C36: in a session driven by the agent the sequencer's own issue log     *)
(* stays empty and the reported learning_issues_count stays 0: a timeout   *)
(* is handled in EXAM_N only while that sentence's exam success count is   *)
(* below max_exam_attempts, so record_exam_attempt never logs.             *)
C36_SequencerLogEmpty ==
    [][/\ state'.learning_issues = <<>>
       /\ get_state_data(state').learning_issues_count = 0
       /\ \A N \in {1, 2} :
             (last_event'.step = EXAMINATION[N] /\ last_event'.is_timeout)
                => /\ state.current_step = EXAMINATION[N]
                   /\ ExamCount(state, N) < max_exam_attempts]_vars

C36_Witness ==
    /\ last_event.step = EXAMINATION_SENTENCE1 /\ last_event.is_timeout
    /\ state.sentence1_exam_attempts = 1
    /\ state.sentence1_timeout_attempts = 3
    /\ state.current_step = EXAMINATION_SENTENCE2
    /\ IssueCount(learning_issues, 1, "exam_failed") = 1
    /\ state.learning_issues = <<>>

----------------------------------------------------------------------------
(* What one call writes to the transcript *)

(* The last call was start_teaching or an event in a non-terminal phase *)
Handled == started /\ (last_event.step = "none" \/ last_event.step # COMPLETED)

(* 1 when the last call was an event that is no timeout and carries text *)
UserTurn ==
    IF last_event.step # "none" /\ ~last_event.is_timeout /\ Truthy(last_event.user_input)
    THEN 1 ELSE 0

(* C37: a call handled without failure in a non-terminal phase, and        *)
(* start_teaching, writes to the transcript the user row (only for an      *)
(* event that is no timeout and has text), then exactly one system row     *)
(* with the prompt given to the generator, then exactly one assistant row  *)
(* with the generator's reply to that prompt, which is the text returned;  *)
(* a call the generator fails has written the system row and no assistant  *)
(* row, the prompt being logged before the generator is called.            *)
C37_RowsOfOneCall ==
    Handled =>
       /\ UserTurn = 1 => appended[1] = [role |-> "user",
                                         content |-> [text |-> last_event.user_input],
                                         step |-> last_event.step]
       /\ message.type = "teaching_response"
             => /\ Len(appended) = UserTurn + 2
                /\ appended[UserTurn + 1].role = "system"
                /\ appended[UserTurn + 2].role = "assistant"
                /\ appended[UserTurn + 2].content = Reply(appended[UserTurn + 1].content)
                /\ appended[UserTurn + 2].step = appended[UserTurn + 1].step
                /\ message.content = appended[UserTurn + 2].content
       /\ message.type = "exception"
             => /\ Len(appended) = UserTurn + 1
                /\ appended[UserTurn + 1].role = "system"
       /\ message.type \in {"teaching_response", "exception"}

(* the second answer in EXAM_2: user row, summary prompt, closing reply *)
C37_Witness ==
    /\ SpokenRun(EXAMINATION_SENTENCE2, 2)
    /\ state.current_step = COMPLETED
    /\ Len(appended) = 3
    /\ appended[1].role = "user" /\ appended[1].step = EXAMINATION_SENTENCE2
    /\ appended[2].role = "system" /\ appended[2].content.template = "summary"
    /\ appended[3].role = "assistant" /\ message.content = appended[3].content

----------------------------------------------------------------------------
(* One lesson followed through TeachingService to its end, as the          *)
(* endpoint of main.py drives it: the session is started, then every event *)
(* is a user message with text or a timeout.  The generator does not fail  *)
(* here, and at most MaxMessages events are user messages.                 *)

(* user messages delivered so far: each wrote one user row *)
Messages == Cardinality({i \in DOMAIN table : table[i].role = "user"})

LessonStart ==
    /\ n_svc = 0
    /\ Serve("start_teaching_session", 1,
             start_teaching_session(active_agents, records, 1, TRUE, FALSE))
    /\ UNCHANGED <<state, agent_vars, llm_vars, ws_vars, sm_vars, ctx_vars>>

LessonMessage ==
    /\ n_svc > 0 /\ n_svc < MaxLessonCalls
    /\ Messages < MaxMessages
    /\ Serve("process_user_message", 1,
             process_user_message(active_agents, records, 1, "hi", FALSE))
    /\ UNCHANGED <<state, agent_vars, llm_vars, ws_vars, sm_vars, ctx_vars>>

LessonTimeout ==
    /\ n_svc > 0 /\ n_svc < MaxLessonCalls
    /\ Serve("process_timeout", 1,
             process_timeout(active_agents, records, 1, FALSE))
    /\ UNCHANGED <<state, agent_vars, llm_vars, ws_vars, sm_vars, ctx_vars>>

NextLesson == LessonStart \/ LessonMessage \/ LessonTimeout

SpecLesson == InitSvc /\ [][NextLesson]_vars

(* C38 (as claimed): when an event handled through TeachingService, a user *)
(* message or a timeout, brings the session to COMPLETED, that same call   *)
(* hands the agent's issues to the record sink and removes the agent from  *)
(* active_agents.                                                          *)
C38_CompletionInSameEvent ==
    [][(/\ n_svc' = n_svc + 1
        /\ svc_call'.op \in {"process_user_message", "process_timeout"}
        /\ svc_call'.response.type = "teaching_response"
        /\ svc_call'.response.step = COMPLETED)
          => LET sid == svc_call'.session_id IN
             /\ sid \notin DOMAIN active_agents'
             /\ \A i \in DOMAIN active_agents[sid].learning_issues :
                   \E j \in DOMAIN records' :
                       records'[j] = [session_id |-> sid,
                                      sentence_order |->
                                          active_agents[sid].learning_issues[i].sentence_order,
                                      record_type |->
                                          active_agents[sid].learning_issues[i].record_type]]_vars

----------------------------------------------------------------------------
(* The process with both entry points: the endpoint of main.py, which      *)
(* serves every session from one TeachingService, and the handler of       *)
(* routes/websocket.py, one WebSocketRouteHandler for all connections.     *)

(* WebSocketRouteHandler.initialize_services(db): a new TeachingService,   *)
(* with an empty registry, takes the place of the one the handler held     *)
initialize_services(h) ==
    [h EXCEPT !.teaching_service = h.connections + 1, !.active_agents = <<>>]

(* websocket_handler.handle_websocket_connection(websocket, user_id):      *)
(* initialize_services runs first; then the await of get_user_by_id's      *)
(* result (a plain def) raises TypeError, and _cleanup_connection, called  *)
(* with session_id unbound, raises in turn: no session is created and no   *)
(* agent registered.                                                       *)
HandleWebsocketConnection ==
    /\ websocket_handler.connections < MaxConnections
    /\ websocket_handler' =
          [initialize_services(websocket_handler) EXCEPT !.connections = @ + 1]
    /\ UNCHANGED <<state, agent_vars, llm_vars, svc_vars, sm_vars, ctx_vars>>

NextWS == SvcStart \/ SvcMessage \/ SvcTimeout \/ SvcEnd \/ HandleWebsocketConnection

SpecWS == InitSvc /\ [][NextWS]_vars

(* C39 (as claimed): opening a connection on the WebSocketRouteHandler     *)
(* leaves the registry it holds in place: the handler keeps the same       *)
(* TeachingService, and every agent registered in it stays registered,     *)
(* unchanged, for its session's later events.                              *)
C39_RegistryKept ==
    [][(/\ websocket_handler'.connections = websocket_handler.connections + 1
        /\ websocket_handler.teaching_service # 0)
          => /\ websocket_handler'.teaching_service = websocket_handler.teaching_service
             /\ \A sid \in DOMAIN websocket_handler.active_agents :
                   /\ sid \in DOMAIN websocket_handler'.active_agents
                   /\ websocket_handler'.active_agents[sid]
                         = websocket_handler.active_agents[sid]]_vars

====
